---------------------------- MODULE Spec2Model ----------------------------
(***************************************************************************)
(* Multithreaded DBSCAN of project.cpp.                                    *)
(*                                                                         *)
(* Lengths are integers in units of 1/2, so that epsilon = 1.5 is the      *)
(* integer 3 and the point (1, 0) is <<2, 0>>; squaredDistance and         *)
(* epsilonSquared are then computed exactly as the code computes them.     *)
(* Every step of a worker holds at most one access to a shared atomic      *)
(* (visited, clusterId, nextClusterId, thread_limiter); coordinates are    *)
(* not written after loading, so findNeighbors is folded into the step     *)
(* that precedes it.                                                       *)
(***************************************************************************)
EXTENDS Integers, Sequences, FiniteSets, TLC

\* ---- bounds of the model ------------------------------------------------
\* size of the global array points[] (10000 in the source, scaled down)
MAX_POINTS == 3
\* capacity of a neighbor buffer; the source sets it equal to MAX_POINTS
MAX_NEIGHBORS == MAX_POINTS
\* permits of thread_limiter (16 in the source, scaled down)
THREAD_LIMIT == 2
\* longest input file, in coordinate pairs
MaxInput == 3
\* input points lie on the two axes: (0..MaxX, 0) and (0, 0..MaxY), in
\* whole units
MaxX == 2
MaxY == 1

Coords == {<<2 * a, 0>> : a \in 0..MaxX} \cup {<<0, 2 * b>> : b \in 0..MaxY}

\* the arguments of dbscan(epsilon, minPts); epsilon in units of 1/2
DbscanArgs == {<<3, 2>>, <<3, 3>>, <<0, 1>>, <<0, 2>>, <<3, 0>>}

Slots == 0..(MAX_POINTS - 1)

VARIABLES
    input,          \* the coordinate pairs of the input file, in file order
    points,         \* Point points[MAX_POINTS]
    pointCount,     \* main's pointCount after loading
    epsilon,        \* dbscan's argument epsilon (units of 1/2)
    minPts,         \* dbscan's argument minPts
    nextClusterId,  \* dbscan's std::atomic<int> nextClusterId
    thread_limiter, \* permits left in the counting semaphore
    mainPc,         \* position of the main thread
    mainI,          \* loop index i of dbscan's two loops
    pc,             \* position of the thread workers[i]; "none" = no thread
    neighbors,      \* processPoint's local neighbor list, per worker
    stack,          \* the expandCluster frames of each worker, innermost last
    output,         \* the triples written to output.txt
    query,          \* arguments of a stand-alone findNeighbors call
    result          \* its returned list

vars == <<input, points, pointCount, epsilon, minPts, nextClusterId,
          thread_limiter, mainPc, mainI, pc, neighbors, stack, output,
          query, result>>

\* ---- Point and loading --------------------------------------------------
\* Point(double _x = 0, double _y = 0): clusterId{0}, visited{false}
Point(x, y) == [x |-> x, y |-> y, clusterId |-> 0, visited |-> FALSE]

Min(a, b) == IF a < b THEN a ELSE b

\* main's load loop: while (file >> x >> y && pointCount < MAX_POINTS)
LoadedCount(in) == Min(Len(in), MAX_POINTS)

Load(in) ==
    [i \in Slots |-> IF i < LoadedCount(in)
                     THEN Point(in[i + 1][1], in[i + 1][2])
                     ELSE Point(0, 0)]

\* the test (points[i].x != 0 || points[i].y != 0) of dbscan and main
Initialized(p) == p.x # 0 \/ p.y # 0

\* ---- pure functions -----------------------------------------------------
\* squaredDistance with the term of x left out
squaredDistanceNoX(a, b) ==
    (a.y - b.y) * (a.y - b.y)

squaredDistance(a, b) ==
    (a.x - b.x) * (a.x - b.x) + (a.y - b.y) * (a.y - b.y)

\* double epsilonSquared = epsilon * epsilon
epsilonSquared == epsilon * epsilon

\* the loop of findNeighbors without its test for uninitialized slots
RECURSIVE findNeighborsFromNoSkip(_, _, _, _, _)
findNeighborsFromNoSkip(pts, point, epsSq, maxNeighbors, st) ==
    IF st.i < MAX_POINTS /\ Len(st.acc) < maxNeighbors
    THEN IF squaredDistance(point, pts[st.i]) <= epsSq
         THEN findNeighborsFromNoSkip(pts, point, epsSq, maxNeighbors,
                                      [i |-> st.i + 1, acc |-> Append(st.acc, st.i)])
         ELSE findNeighborsFromNoSkip(pts, point, epsSq, maxNeighbors,
                                      [i |-> st.i + 1, acc |-> st.acc])
    ELSE st.acc

\* the loop of findNeighbors from index i on, acc = neighbors[0..count-1]
RECURSIVE findNeighborsFrom(_, _, _, _, _)
findNeighborsFrom(pts, point, epsSq, maxNeighbors, st) ==
    IF st.i < MAX_POINTS /\ Len(st.acc) < maxNeighbors
    THEN IF pts[st.i].x = 0 /\ pts[st.i].y = 0
         THEN findNeighborsFrom(pts, point, epsSq, maxNeighbors,
                                [i |-> st.i + 1, acc |-> st.acc])
         ELSE IF squaredDistance(point, pts[st.i]) <= epsSq
              THEN findNeighborsFrom(pts, point, epsSq, maxNeighbors,
                                     [i |-> st.i + 1, acc |-> Append(st.acc, st.i)])
              ELSE findNeighborsFrom(pts, point, epsSq, maxNeighbors,
                                     [i |-> st.i + 1, acc |-> st.acc])
    ELSE st.acc

\* the first `count` entries of the buffer that findNeighbors fills
findNeighbors(point, epsSq, maxNeighbors) ==
    findNeighborsFrom(points, point, epsSq, maxNeighbors, [i |-> 0, acc |-> <<>>])

\* ---- initial state: after main has loaded the file ---------------------
Inputs == UNION {[1..n -> Coords] : n \in 1..MaxInput}

NoQuery == [index |-> -1, maxNeighbors |-> 0]

Init ==
    /\ input \in Inputs
    /\ points = Load(input)
    /\ pointCount = LoadedCount(input)
    /\ \E a \in DbscanArgs : epsilon = a[1] /\ minPts = a[2]
    /\ nextClusterId = 0
    /\ thread_limiter = THREAD_LIMIT
    /\ mainPc = "spawn"
    /\ mainI = 0
    /\ pc = [w \in Slots |-> "none"]
    /\ neighbors = [w \in Slots |-> <<>>]
    /\ stack = [w \in Slots |-> <<>>]
    /\ output = <<>>
    /\ query = NoQuery
    /\ result = <<>>

\* ---- dbscan: the main thread --------------------------------------------
\* the loop that starts the threads without its test of the coordinates
SpawnAll ==
    /\ mainPc = "spawn"
    /\ pc' = [pc EXCEPT ![mainI] = "acquire"]
    /\ IF mainI + 1 < MAX_POINTS
       THEN mainI' = mainI + 1 /\ mainPc' = mainPc
       ELSE mainI' = 0 /\ mainPc' = "join"
    /\ UNCHANGED <<input, points, pointCount, epsilon, minPts, nextClusterId,
                   thread_limiter, neighbors, stack, output, query, result>>

\* one iteration of the loop that starts the threads
Spawn ==
    /\ mainPc = "spawn"
    /\ pc' = IF Initialized(points[mainI])
             THEN [pc EXCEPT ![mainI] = "acquire"]
             ELSE pc
    /\ IF mainI + 1 < MAX_POINTS
       THEN mainI' = mainI + 1 /\ mainPc' = mainPc
       ELSE mainI' = 0 /\ mainPc' = "join"
    /\ UNCHANGED <<input, points, pointCount, epsilon, minPts, nextClusterId,
                   thread_limiter, neighbors, stack, output, query, result>>

\* one iteration of the loop that joins them; join() blocks until the
\* thread has left processPoint
Join ==
    /\ mainPc = "join"
    /\ pc[mainI] \in {"none", "done"}
    /\ IF mainI + 1 < MAX_POINTS
       THEN mainI' = mainI + 1 /\ mainPc' = mainPc
       ELSE mainI' = 0 /\ mainPc' = "returned"
    /\ UNCHANGED <<input, points, pointCount, epsilon, minPts, nextClusterId,
                   thread_limiter, pc, neighbors, stack, output, query, result>>

\* main's output loop: the triples x y clusterId of the initialized slots
RECURSIVE OutputFrom(_, _)
OutputFrom(pts, i) ==
    IF i < MAX_POINTS
    THEN IF Initialized(pts[i])
         THEN <<<<pts[i].x, pts[i].y, pts[i].clusterId>>>> \o OutputFrom(pts, i + 1)
         ELSE OutputFrom(pts, i + 1)
    ELSE <<>>

WriteOutput ==
    /\ mainPc = "returned"
    /\ output' = OutputFrom(points, 0)
    /\ mainPc' = "written"
    /\ UNCHANGED <<input, points, pointCount, epsilon, minPts, nextClusterId,
                   thread_limiter, mainI, pc, neighbors, stack, query, result>>

\* ---- processPoint -------------------------------------------------------
\* acquire() that takes a permit without waiting for one
AcquireNoWait(w) ==
    /\ pc[w] = "acquire"
    /\ thread_limiter' = thread_limiter - 1
    /\ pc' = [pc EXCEPT ![w] = "exchange"]
    /\ UNCHANGED <<input, points, pointCount, epsilon, minPts, nextClusterId,
                   mainPc, mainI, neighbors, stack, output, query, result>>

\* thread_limiter.acquire()
Acquire(w) ==
    /\ pc[w] = "acquire"
    /\ thread_limiter > 0
    /\ thread_limiter' = thread_limiter - 1
    /\ pc' = [pc EXCEPT ![w] = "exchange"]
    /\ UNCHANGED <<input, points, pointCount, epsilon, minPts, nextClusterId,
                   mainPc, mainI, neighbors, stack, output, query, result>>

\* MarkVisited that clears the flag it finds set: visited = !visited
MarkVisitedToggle(w) ==
    /\ pc[w] = "exchange"
    /\ points' = [points EXCEPT ![w].visited = ~points[w].visited]
    /\ IF ~points[w].visited
       THEN LET nb == findNeighbors(points[w], epsilonSquared, MAX_NEIGHBORS) IN
            /\ neighbors' = [neighbors EXCEPT ![w] = nb]
            /\ pc' = [pc EXCEPT ![w] = IF Len(nb) >= minPts THEN "incr" ELSE "release"]
       ELSE /\ neighbors' = neighbors
            /\ pc' = [pc EXCEPT ![w] = "release"]
    /\ UNCHANGED <<input, pointCount, epsilon, minPts, nextClusterId,
                   thread_limiter, mainPc, mainI, stack, output, query, result>>

\* MarkVisited that ignores the value the exchange returns
MarkVisitedAlways(w) ==
    /\ pc[w] = "exchange"
    /\ points' = [points EXCEPT ![w].visited = TRUE]
    /\ LET nb == findNeighbors(points[w], epsilonSquared, MAX_NEIGHBORS) IN
       /\ neighbors' = [neighbors EXCEPT ![w] = nb]
       /\ pc' = [pc EXCEPT ![w] = IF Len(nb) >= minPts THEN "incr" ELSE "release"]
    /\ UNCHANGED <<input, pointCount, epsilon, minPts, nextClusterId,
                   thread_limiter, mainPc, mainI, stack, output, query, result>>

\* MarkVisited with the core test off by one: count + 1 >= minPts
MarkVisitedOffByOne(w) ==
    /\ pc[w] = "exchange"
    /\ points' = [points EXCEPT ![w].visited = TRUE]
    /\ IF ~points[w].visited
       THEN LET nb == findNeighbors(points[w], epsilonSquared, MAX_NEIGHBORS) IN
            /\ neighbors' = [neighbors EXCEPT ![w] = nb]
            /\ pc' = [pc EXCEPT ![w] = IF Len(nb) + 1 >= minPts THEN "incr" ELSE "release"]
       ELSE /\ neighbors' = neighbors
            /\ pc' = [pc EXCEPT ![w] = "release"]
    /\ UNCHANGED <<input, pointCount, epsilon, minPts, nextClusterId,
                   thread_limiter, mainPc, mainI, stack, output, query, result>>

\* if (!point.visited.exchange(true)) { findNeighbors; if (count >= minPts)
MarkVisited(w) ==
    /\ pc[w] = "exchange"
    /\ points' = [points EXCEPT ![w].visited = TRUE]
    /\ IF ~points[w].visited
       THEN LET nb == findNeighbors(points[w], epsilonSquared, MAX_NEIGHBORS) IN
            /\ neighbors' = [neighbors EXCEPT ![w] = nb]
            /\ pc' = [pc EXCEPT ![w] = IF Len(nb) >= minPts THEN "incr" ELSE "release"]
       ELSE /\ neighbors' = neighbors
            /\ pc' = [pc EXCEPT ![w] = "release"]
    /\ UNCHANGED <<input, pointCount, epsilon, minPts, nextClusterId,
                   thread_limiter, mainPc, mainI, stack, output, query, result>>

\* a frame of expandCluster at its first statement
Frame(pointIndex, nb, clusterId) ==
    [pointIndex |-> pointIndex, neighbors |-> nb, clusterId |-> clusterId,
     i |-> 0, at |-> "assign"]

\* NewCluster with a post-increment: int clusterId = nextClusterId++
NewClusterPostIncrement(w) ==
    /\ pc[w] = "incr"
    /\ nextClusterId' = nextClusterId + 1
    /\ stack' = [stack EXCEPT ![w] = <<Frame(w, neighbors[w], nextClusterId)>>]
    /\ pc' = [pc EXCEPT ![w] = "expand"]
    /\ UNCHANGED <<input, points, pointCount, epsilon, minPts, thread_limiter,
                   mainPc, mainI, neighbors, output, query, result>>

\* int clusterId = ++nextClusterId; expandCluster(index, neighbors, ...)
NewCluster(w) ==
    /\ pc[w] = "incr"
    /\ nextClusterId' = nextClusterId + 1
    /\ stack' = [stack EXCEPT ![w] = <<Frame(w, neighbors[w], nextClusterId + 1)>>]
    /\ pc' = [pc EXCEPT ![w] = "expand"]
    /\ UNCHANGED <<input, points, pointCount, epsilon, minPts, thread_limiter,
                   mainPc, mainI, neighbors, output, query, result>>

\* thread_limiter.release(); the thread ends
Release(w) ==
    /\ pc[w] = "release"
    /\ thread_limiter' = thread_limiter + 1
    /\ pc' = [pc EXCEPT ![w] = "done"]
    /\ UNCHANGED <<input, points, pointCount, epsilon, minPts, nextClusterId,
                   mainPc, mainI, neighbors, stack, output, query, result>>

\* ---- expandCluster ------------------------------------------------------
Top(s) == s[Len(s)]
Pop(s) == SubSeq(s, 1, Len(s) - 1)
SetTop(s, f) == [s EXCEPT ![Len(s)] = f]

\* the worker's stack and position once its innermost frame has returned
ReturnStack(w) == Pop(stack[w])
ReturnPc(w) == IF Len(stack[w]) = 1 THEN "release" ELSE "expand"

\* the end of one loop iteration: ++i, then the loop test i < neighborCount
NextIteration(w) ==
    LET f == Top(stack[w]) IN
    IF f.i + 1 < Len(f.neighbors)
    THEN /\ stack' = [stack EXCEPT ![w] = SetTop(stack[w], [f EXCEPT !.i = f.i + 1, !.at = "visit"])]
         /\ pc' = pc
    ELSE /\ stack' = [stack EXCEPT ![w] = ReturnStack(w)]
         /\ pc' = [pc EXCEPT ![w] = ReturnPc(w)]

\* points[pointIndex].clusterId = clusterId; then the first loop test
AssignSeed(w) ==
    /\ pc[w] = "expand"
    /\ Top(stack[w]).at = "assign"
    /\ LET f == Top(stack[w]) IN
       /\ points' = [points EXCEPT ![f.pointIndex].clusterId = f.clusterId]
       /\ IF 0 < Len(f.neighbors)
          THEN /\ stack' = [stack EXCEPT ![w] = SetTop(stack[w], [f EXCEPT !.at = "visit"])]
               /\ pc' = pc
          ELSE /\ stack' = [stack EXCEPT ![w] = ReturnStack(w)]
               /\ pc' = [pc EXCEPT ![w] = ReturnPc(w)]
    /\ UNCHANGED <<input, pointCount, epsilon, minPts, nextClusterId,
                   thread_limiter, mainPc, mainI, neighbors, output, query, result>>

\* if (!p.visited.exchange(true)) { findNeighbors; if (count >= minPts)
\* expandCluster(neighbors[i], newNeighbors, ...) }.  The caller resumes at
\* the test of p.clusterId.
VisitNeighbor(w) ==
    /\ pc[w] = "expand"
    /\ Top(stack[w]).at = "visit"
    /\ LET f == Top(stack[w])
           q == f.neighbors[f.i + 1]
           newNeighbors == findNeighbors(points[q], epsilonSquared, MAX_NEIGHBORS)
           resumed == SetTop(stack[w], [f EXCEPT !.at = "check"])
       IN
       /\ points' = [points EXCEPT ![q].visited = TRUE]
       /\ IF ~points[q].visited /\ Len(newNeighbors) >= minPts
          THEN stack' = [stack EXCEPT ![w] = Append(resumed, Frame(q, newNeighbors, f.clusterId))]
          ELSE stack' = [stack EXCEPT ![w] = resumed]
    /\ UNCHANGED <<input, pointCount, epsilon, minPts, nextClusterId,
                   thread_limiter, mainPc, mainI, pc, neighbors, output, query, result>>

\* if (p.clusterId == 0): the load
CheckLabel(w) ==
    /\ pc[w] = "expand"
    /\ Top(stack[w]).at = "check"
    /\ LET f == Top(stack[w])
           q == f.neighbors[f.i + 1]
       IN
       IF points[q].clusterId = 0
       THEN /\ stack' = [stack EXCEPT ![w] = SetTop(stack[w], [f EXCEPT !.at = "write"])]
            /\ pc' = pc
       ELSE NextIteration(w)
    /\ UNCHANGED <<input, points, pointCount, epsilon, minPts, nextClusterId,
                   thread_limiter, mainPc, mainI, neighbors, output, query, result>>

\* p.clusterId = clusterId: the store
ClaimLabel(w) ==
    /\ pc[w] = "expand"
    /\ Top(stack[w]).at = "write"
    /\ LET f == Top(stack[w])
           q == f.neighbors[f.i + 1]
       IN
       /\ points' = [points EXCEPT ![q].clusterId = f.clusterId]
       /\ NextIteration(w)
    /\ UNCHANGED <<input, pointCount, epsilon, minPts, nextClusterId,
                   thread_limiter, mainPc, mainI, neighbors, output, query, result>>

\* ---- the program --------------------------------------------------------
Next ==
    \/ Spawn
    \/ Join
    \/ WriteOutput
    \/ \E w \in Slots : Acquire(w)
    \/ \E w \in Slots : MarkVisited(w)
    \/ \E w \in Slots : NewCluster(w)
    \/ \E w \in Slots : AssignSeed(w)
    \/ \E w \in Slots : VisitNeighbor(w)
    \/ \E w \in Slots : CheckLabel(w)
    \/ \E w \in Slots : ClaimLabel(w)
    \/ \E w \in Slots : Release(w)

Spec == Init /\ [][Next]_vars

TypeOK ==
    /\ nextClusterId \in 0..MAX_POINTS
    /\ thread_limiter \in 0..THREAD_LIMIT
    /\ \A w \in Slots : Len(stack[w]) <= MAX_POINTS

\* ---- stand-alone calls of findNeighbors ---------------------------------
\* findNeighbors(points[index], epsilonSquared, buffer, maxNeighbors) called
\* on the loaded array; it reads coordinates only
QueryNeighbors(index, maxNeighbors) ==
    /\ query' = [index |-> index, maxNeighbors |-> maxNeighbors]
    /\ result' = findNeighbors(points[index], epsilonSquared, maxNeighbors)
    /\ UNCHANGED <<input, points, pointCount, epsilon, minPts, nextClusterId,
                   thread_limiter, mainPc, mainI, pc, neighbors, stack, output>>

NextFN == \E index \in 0..(pointCount - 1) : \E maxNeighbors \in 1..MAX_NEIGHBORS :
              QueryNeighbors(index, maxNeighbors)

SpecFN == Init /\ [][NextFN]_vars

\* ---- the same code run by one worker at a time, in index order ----------
RECURSIVE SeqExpand(_, _, _, _, _, _), SeqLoop(_, _, _, _, _, _)
\* expandCluster(pointIndex, nb, Len(nb), clusterId, epsSq, mp) on pts
SeqExpand(pts, pointIndex, nb, clusterId, epsSq, mp) ==
    SeqLoop([pts EXCEPT ![pointIndex].clusterId = clusterId], nb, 0, clusterId, epsSq, mp)

\* its loop from iteration i on
SeqLoop(pts, nb, i, clusterId, epsSq, mp) ==
    IF i < Len(nb)
    THEN LET q == nb[i + 1]
             marked == [pts EXCEPT ![q].visited = TRUE]
             newNeighbors == findNeighborsFrom(pts, pts[q], epsSq, MAX_NEIGHBORS,
                                               [i |-> 0, acc |-> <<>>])
             expanded == IF ~pts[q].visited /\ Len(newNeighbors) >= mp
                         THEN SeqExpand(marked, q, newNeighbors, clusterId, epsSq, mp)
                         ELSE marked
             claimed == IF expanded[q].clusterId = 0
                        THEN [expanded EXCEPT ![q].clusterId = clusterId]
                        ELSE expanded
         IN SeqLoop(claimed, nb, i + 1, clusterId, epsSq, mp)
    ELSE pts

\* processPoint(index, ...) run alone; st = [pts, next]
SeqProcessPoint(st, index, epsSq, mp) ==
    IF ~st.pts[index].visited
    THEN LET marked == [st.pts EXCEPT ![index].visited = TRUE]
             nb == findNeighborsFrom(st.pts, st.pts[index], epsSq, MAX_NEIGHBORS,
                                     [i |-> 0, acc |-> <<>>])
         IN IF Len(nb) >= mp
            THEN [pts |-> SeqExpand(marked, index, nb, st.next + 1, epsSq, mp),
                  next |-> st.next + 1]
            ELSE [pts |-> marked, next |-> st.next]
    ELSE st

\* dbscan with each thread run to completion before the next is started
RECURSIVE SeqDbscan(_, _, _, _)
SeqDbscan(st, i, epsSq, mp) ==
    IF i < MAX_POINTS
    THEN IF Initialized(st.pts[i])
         THEN SeqDbscan(SeqProcessPoint(st, i, epsSq, mp), i + 1, epsSq, mp)
         ELSE SeqDbscan(st, i + 1, epsSq, mp)
    ELSE st

\* ---- vocabulary of the properties ---------------------------------------
\* The geometry is restated here from the input, independently of the
\* operators above.
Loaded == 0..(pointCount - 1)
Label(i) == points[i].clusterId
Returned == mainPc \in {"returned", "written"}

Near(i, j) ==
    LET dx == input[i + 1][1] - input[j + 1][1]
        dy == input[i + 1][2] - input[j + 1][2]
    IN dx * dx + dy * dy <= epsilon * epsilon

Within(i) == {j \in Loaded : Near(i, j)}
IsCore(i) == Cardinality(Within(i)) >= minPts
Cores == {i \in Loaded : IsCore(i)}

\* the core points joined to a set S of core points by chains of core
\* points, each within epsilon of the next
RECURSIVE CoreClosure(_)
CoreClosure(S) ==
    LET T == S \cup {j \in Cores : \E k \in S : Near(k, j)}
    IN IF T = S THEN S ELSE CoreClosure(T)

\* i and j are joined by a chain of points, each within epsilon of the
\* next, whose inner points are all core points
Linked(i, j) ==
    \/ i = j
    \/ Near(i, j)
    \/ \E c \in CoreClosure({k \in Cores : Near(i, k)}) : Near(c, j)

Range(f) == {f[k] : k \in DOMAIN f}

\* the configurations that section 4.4 of the specification accepts
ValidConfig == epsilon > 0 /\ minPts >= 1

\* no input point lies at the origin, the coordinates of an unused slot
NoOriginInput == \A k \in 1..Len(input) : input[k] # <<0, 0>>

\* ---- C1 -----------------------------------------------------------------
\* C1: a claim of a point for a cluster (the store p.clusterId = clusterId
\* inside the loop of expandCluster) only ever lands on a point whose label
\* is still 0, so that at most one claim wins a point and a loser leaves the
\* label it finds untouched.  Stated for valid configurations and inputs
\* without a point at the origin.
C1_SingleWinner ==
    [][(ValidConfig /\ NoOriginInput) =>
          \A w \in Slots :
             (pc[w] = "expand" /\ Top(stack[w]).at = "write" /\ stack'[w] # stack[w])
                 => Label(Top(stack[w]).neighbors[Top(stack[w]).i + 1]) = 0]_vars

\* ---- C2 -----------------------------------------------------------------
\* C2: once the label of a point is positive it never changes again.
\* Stated for valid configurations and inputs without a point at the origin.
C2_LabelMonotonic ==
    [][(ValidConfig /\ NoOriginInput) =>
          \A i \in Slots : Label(i) > 0 => points'[i].clusterId = Label(i)]_vars

\* ---- C3 -----------------------------------------------------------------
SamePartition(l1, l2) ==
    \A i \in Loaded : \A j \in Loaded : (l1[i] = l1[j]) <=> (l2[i] = l2[j])

SequentialLabels ==
    LET final == SeqDbscan([pts |-> Load(input), next |-> 0], 0, epsilon * epsilon, minPts)
    IN [i \in Slots |-> final.pts[i].clusterId]

\* C3: when dbscan has returned, the partition of the points into groups of
\* equal label is the one obtained by running the workers one at a time.
\* Stated for valid configurations and inputs without a point at the origin.
C3_ConcurrencyInvariance ==
    (Returned /\ ValidConfig /\ NoOriginInput) =>
        SamePartition([i \in Slots |-> Label(i)], SequentialLabels)

\* ---- C4 -----------------------------------------------------------------
\* C4: when dbscan has returned, two core points joined by a chain of core
\* points, each within epsilon of the next, carry the same cluster id.
\* Stated for valid configurations and inputs without a point at the origin.
C4_OneClusterPerGroup ==
    (Returned /\ ValidConfig /\ NoOriginInput) =>
        \A i \in Cores : \A j \in CoreClosure({i}) : Label(i) = Label(j)

\* ---- C5 -----------------------------------------------------------------
\* the cluster id a worker is expanding
Expanding(w) == pc[w] = "expand"
SeedId(w) == stack[w][1].clusterId

\* C5: in every state, two points with the same positive label are joined
\* by a chain of points, each within epsilon of the next, that passes only
\* through core points; and every point labelled with the id a worker is
\* expanding is joined in this way to the seed of that worker.
C5_NoCrossMembership ==
    /\ \A i \in Slots : \A j \in Slots :
          (Label(i) > 0 /\ Label(i) = Label(j)) =>
              (i \in Loaded /\ j \in Loaded /\ Linked(i, j))
    /\ \A w \in Slots : Expanding(w) =>
          \A i \in Slots : Label(i) = SeedId(w) => (i \in Loaded /\ Linked(w, i))

\* two points share a cluster while two points that no chain joins hold
\* two other positive labels
C5_Witness ==
    /\ \E i \in Loaded : \E j \in Loaded : i # j /\ Label(i) > 0 /\ Label(i) = Label(j)
    /\ \E k \in Loaded : \E l \in Loaded :
          Label(k) > 0 /\ Label(l) > 0 /\ Label(k) # Label(l) /\ ~Linked(k, l)

\* ---- C6 -----------------------------------------------------------------
\* C6: when dbscan has returned, a loaded point has label 0 exactly when it
\* is not a core point and no core point lies within epsilon of it.  Stated
\* for valid configurations.
C6_NoiseAtTermination ==
    (Returned /\ ValidConfig) => \A i \in Loaded :
        (Label(i) = 0) <=> (~IsCore(i) /\ ~\E c \in Cores : Near(c, i))

\* ---- C7 -----------------------------------------------------------------
\* C7: every neighbor list that findNeighbors has returned, to processPoint
\* or to expandCluster, holds exactly the loaded points within epsilon of
\* the point it was asked for, that point included.  Stated for valid
\* configurations.
C7_NeighborQuery ==
    ValidConfig =>
        /\ \A w \in Slots : neighbors[w] # <<>> => Range(neighbors[w]) = Within(w)
        /\ \A w \in Slots : \A k \in DOMAIN stack[w] :
              Range(stack[w][k].neighbors) = Within(stack[w][k].pointIndex)

\* ---- C8 -----------------------------------------------------------------
\* C8: the output holds one triple per loaded point, in input order, with
\* the coordinates and the final label of that point, and every loaded
\* point was processed by a worker.  Stated for valid configurations.
C8_OutputCardinalityOrder ==
    (mainPc = "written" /\ ValidConfig) =>
        /\ Len(output) = pointCount
        /\ \A k \in 1..pointCount :
              output[k] = <<input[k][1], input[k][2], Label(k - 1)>>
        /\ \A i \in Loaded : pc[i] = "done"

\* ---- C9 -----------------------------------------------------------------
\* C9: with epsilon <= 0 or minPts < 1 no worker is started, no visited
\* flag is set, no label is written and no cluster id is drawn.
C9_ConfigValidation ==
    (epsilon <= 0 \/ minPts < 1) =>
        /\ \A w \in Slots : pc[w] = "none"
        /\ \A i \in Slots : ~points[i].visited /\ Label(i) = 0
        /\ nextClusterId = 0

\* ---- C10 ----------------------------------------------------------------
\* C10: the list returned by findNeighbors omits no initialized point that
\* lies within epsilon of the queried point (the return value has no way
\* to signal that the capacity maxNeighbors was exceeded).  Stated for valid
\* configurations.
C10_NoSilentTruncation ==
    (query.index >= 0 /\ ValidConfig) =>
        \A j \in Within(query.index) : Initialized(points[j]) => j \in Range(result)

\* ---- C11 ----------------------------------------------------------------
\* the threads that have been created and have not yet finished
Unfinished == {w \in Slots : pc[w] \notin {"none", "done"}}

OffOrigin == {i \in Loaded : input[i + 1] # <<0, 0>>}

Active == {w \in Slots : pc[w] \in {"exchange", "incr", "expand", "release"}}

\* C12: at most THREAD_LIMIT workers are between acquire and release, the
\* permit count stays within 0..THREAD_LIMIT, and it is back at
\* THREAD_LIMIT when dbscan has returned.
C12_BoundedActiveWorkers ==
    /\ Cardinality(Active) <= THREAD_LIMIT
    /\ thread_limiter >= 0
    /\ thread_limiter <= THREAD_LIMIT
    /\ Returned => thread_limiter = THREAD_LIMIT

\* every permit is taken and a further worker waits in acquire()
C12_Witness ==
    /\ thread_limiter = 0
    /\ Cardinality(Active) = THREAD_LIMIT
    /\ \E w \in Slots : pc[w] = "acquire"

\* ---- C13 ----------------------------------------------------------------
\* the number of indices findNeighbors returns for point i: the loaded
\* points off the origin within epsilon of it
Counted(i) == Cardinality({j \in OffOrigin : Near(i, j)})

\* worker w executes the store p.clusterId = clusterId of the loop on point i
ClaimsPoint(w, i) ==
    /\ pc[w] = "expand"
    /\ Top(stack[w]).at = "write"
    /\ Top(stack[w]).neighbors[Top(stack[w]).i + 1] = i
    /\ stack'[w] # stack[w]

\* no worker is about to draw an id for, or is inside expandCluster on, a
\* point with fewer than minPts neighbors
C13_NeverSeed ==
    /\ \A w \in Slots : pc[w] = "incr" => Counted(w) >= minPts
    /\ \A w \in Slots : \A k \in DOMAIN stack[w] :
          Counted(stack[w][k].pointIndex) >= minPts

\* the counter is incremented for core points only, and the label of a
\* point with fewer than minPts neighbors changes only by the conditional
\* assignment of the loop
C13_OnlyAbsorbed ==
    /\ nextClusterId' # nextClusterId =>
          \E w \in Slots : pc[w] = "incr" /\ pc'[w] = "expand" /\ Counted(w) >= minPts
    /\ \A i \in Loaded :
          (Counted(i) < minPts /\ points'[i].clusterId # Label(i)) =>
              \E w \in Slots : ClaimsPoint(w, i)

\* C13: a point for which findNeighbors returns fewer than minPts indices
\* never causes the cluster-id counter to be incremented and is never the
\* pointIndex of an expandCluster call; it receives a positive label only
\* through the conditional assignment of another point's expansion.
C13_CorePointBoundary == []C13_NeverSeed /\ [][C13_OnlyAbsorbed]_vars

\* a point with exactly minPts - 1 neighbors has been absorbed as a border
\* point
C13_Witness ==
    \E i \in Loaded : ValidConfig /\ Counted(i) = minPts - 1 /\ Label(i) > 0

\* ---- C14 ----------------------------------------------------------------
\* no two input points have the same coordinates
DistinctInput ==
    \A k \in 1..Len(input) : \A l \in 1..Len(input) : k # l => input[k] # input[l]

C15_IdsDistinct ==
    /\ nextClusterId >= 0
    /\ \A w \in Slots : Expanding(w) =>
          /\ SeedId(w) >= 1
          /\ SeedId(w) <= nextClusterId
          /\ \A k \in DOMAIN stack[w] : stack[w][k].clusterId = SeedId(w)
          /\ \A v \in Slots : (v # w /\ Expanding(v)) => SeedId(v) # SeedId(w)
    /\ \A i \in Slots : Label(i) >= 0 /\ Label(i) <= nextClusterId

\* the counter moves by one at a time, and the worker that moves it gets
\* the new value, larger than every id handed out before
C15_IdsIncreasing ==
    /\ nextClusterId' >= nextClusterId
    /\ \A w \in Slots :
          (pc[w] = "incr" /\ pc'[w] = "expand") =>
              /\ nextClusterId' = nextClusterId + 1
              /\ stack'[w][1].clusterId = nextClusterId'
    /\ nextClusterId' # nextClusterId =>
          \E w \in Slots : pc[w] = "incr" /\ pc'[w] = "expand"

\* C15: every id obtained from nextClusterId is positive, ids are handed out
\* in strictly increasing order of the increments, no two invocations of
\* processPoint obtain the same id, and 0 is never handed out.
C15_ClusterIdUnique == []C15_IdsDistinct /\ [][C15_IdsIncreasing]_vars

\* two workers expand two clusters at the same time
C15_Witness ==
    \E v \in Slots : \E w \in Slots :
        v # w /\ Expanding(v) /\ Expanding(w) /\ SeedId(v) # SeedId(w)

\* ---- C16 ----------------------------------------------------------------
\* C16: dbscan returns only after every started worker has finished and
\* given back its permit, and at that moment every loaded point has
\* visited = true.  Stated for valid configurations.
C16_JoinBarrier ==
    (Returned /\ ValidConfig) =>
        /\ \A w \in Slots : pc[w] \in {"none", "done"} /\ stack[w] = <<>>
        /\ thread_limiter = THREAD_LIMIT
        /\ \A i \in Loaded : points[i].visited

\* ---- C17 ----------------------------------------------------------------
\* worker w has executed visited.exchange(true) on its own point
PastExchange(w) == pc[w] \in {"incr", "expand", "release", "done"}

\* frame f has executed visited.exchange(true) on the neighbor at position k
\* (counted from 0) of its list
FrameExchanged(f, k) == k < f.i \/ (k = f.i /\ f.at \in {"check", "write"})

\* every exchange that has been executed has left the flag set
C17_ExchangeSets ==
    /\ \A w \in Slots : PastExchange(w) => points[w].visited
    /\ \A w \in Slots : \A n \in DOMAIN stack[w] :
          \A k \in 0..(Len(stack[w][n].neighbors) - 1) :
             FrameExchanged(stack[w][n], k) =>
                 points[stack[w][n].neighbors[k + 1]].visited

\* a flag that is set stays set, and a step sets at most one flag
C17_NeverReset ==
    /\ \A i \in Slots : points[i].visited => points'[i].visited
    /\ Cardinality({i \in Slots : ~points[i].visited /\ points'[i].visited}) <= 1

\* C17: the visited flag of a point goes from false to true at most once
\* and is never reset, so that of all the exchanges executed on a point
\* exactly one, the first, observes false.
C17_VisitedOnce == []C17_ExchangeSets /\ [][C17_NeverReset]_vars

\* a worker has lost the exchange on its own point to an expansion
C17_Witness ==
    \E w \in Slots : pc[w] = "release" /\ neighbors[w] = <<>> /\ points[w].visited

\* ---- C18 ----------------------------------------------------------------
\* the step hands a neighbor list of point i to processPoint
QueriedByWorker(i) == neighbors'[i] # neighbors[i]

\* the step calls expandCluster recursively with pointIndex i
ExpandedByFrame(i) ==
    \E w \in Slots :
        /\ Len(stack[w]) >= 1
        /\ Len(stack'[w]) = Len(stack[w]) + 1
        /\ Top(stack'[w]).pointIndex = i

\* the calls of expandCluster in progress with pointIndex i
FramesOn(i) ==
    {<<w, k>> \in Slots \X (1..MAX_POINTS) :
        k \in DOMAIN stack[w] /\ stack[w][k].pointIndex = i}

\* at any time at most one worker holds the neighbor list of point i or is
\* inside expandCluster(i, ...), and the seed of a worker is its own point
C18_OneOwner ==
    /\ \A w \in Slots : stack[w] # <<>> => stack[w][1].pointIndex = w
    /\ \A i \in Slots :
          Cardinality(FramesOn(i)) + (IF pc[i] = "incr" THEN 1 ELSE 0) <= 1
    /\ \A i \in Slots : FramesOn(i) # {} => points[i].visited

\* a neighbor list of point i is computed, and expandCluster entered for
\* it, only by the step whose exchange turns visited of i from false to true
C18_QueryOnFirstVisit ==
    \A i \in Slots :
        (QueriedByWorker(i) \/ ExpandedByFrame(i)) =>
            (~points[i].visited /\ points'[i].visited)

\* a step draws a fresh id for a point only if the point's own worker holds
\* its neighbor list
C18_SeedOnce ==
    \A w \in Slots :
        (pc[w] = "incr" /\ pc'[w] = "expand") =>
            (neighbors[w] # <<>> /\ FramesOn(w) = {})

\* C18: a point is the query point of findNeighbors at most once in a run,
\* whichever call site, and so is the pointIndex of at most one
\* expandCluster call and the seed of at most one cluster id.
C18_OneQueryPerPoint ==
    /\ []C18_OneOwner
    /\ [][C18_QueryOnFirstVisit /\ C18_SeedOnce]_vars
    /\ [][\A i \in Slots : points[i].visited => points'[i].visited]_vars

\* a point has been expanded inside another point's cluster while its own
\* worker has yet to run
C18_Witness ==
    \E w \in Slots : \E i \in Slots :
        /\ w # i
        /\ Len(stack[w]) >= 2
        /\ Top(stack[w]).pointIndex = i
        /\ pc[i] \in {"acquire", "exchange"}

\* ---- C19 ----------------------------------------------------------------
\* C19: when dbscan has returned, every id handed out, 1..nextClusterId, is
\* the label of at least one point.  Stated for valid configurations and
\* inputs without a point at the origin.
C19_NoEmptyCluster ==
    (Returned /\ ValidConfig /\ NoOriginInput) =>
        \A k \in 1..nextClusterId : \E i \in Loaded : Label(i) = k

\* ---- C20 ----------------------------------------------------------------
\* the slots of points[] that main never loaded
Unloaded == Slots \ Loaded

\* the array holds the input's coordinates, and a slot never loaded is as
\* constructed: coordinates 0, visited = false, clusterId = 0
C20_SlotsAsLoaded ==
    /\ pointCount = Min(Len(input), MAX_POINTS)
    /\ \A i \in Loaded : points[i].x = input[i + 1][1] /\ points[i].y = input[i + 1][2]
    /\ \A i \in Unloaded :
          points[i].x = 0 /\ points[i].y = 0 /\ ~points[i].visited /\ Label(i) = 0

\* no step changes a coordinate, the input or the number of points
C20_CoordinatesFixed ==
    /\ input' = input
    /\ pointCount' = pointCount
    /\ \A i \in Slots : points'[i].x = points[i].x /\ points'[i].y = points[i].y
    /\ DOMAIN points' = DOMAIN points

\* C20: during a run no step changes a coordinate or the number of points;
\* only visited and clusterId change, and a slot that was never loaded
\* keeps visited = false and clusterId = 0.
C20_FrameOfClustering == []C20_SlotsAsLoaded /\ [][C20_CoordinatesFixed]_vars

\* dbscan has returned with a labelled point within epsilon of the
\* coordinates (0, 0) of the slots that were never loaded
C20_Witness ==
    /\ Returned
    /\ Unloaded # {}
    /\ \E i \in Loaded :
          /\ Label(i) > 0 /\ points[i].visited
          /\ input[i + 1][1] * input[i + 1][1] + input[i + 1][2] * input[i + 1][2]
                <= epsilon * epsilon
=============================================================================
